---------------------------- MODULE Spec2Model ----------------------------
(***************************************************************************)
(* XATSimplified: trickle ingestion (collectors/api/views.py), session     *)
(* lifecycle (collectors/api/dashboard_views.py, collectors/models.py)     *)
(* and the cubing service (collectors/services/cubing.py).                 *)
(*                                                                         *)
(* Numbers.  Python floats are modelled by exact rationals.  A rational is *)
(* a pair <<n, d>> with d > 0.  round(x, 2) yields an integer count of     *)
(* hundredths, round(x, 4) an integer count of ten-thousandths, both with  *)
(* round-half-even as Python's round().  None is the empty tuple <<>>, a   *)
(* present value v is <<v>>.                                               *)
(***************************************************************************)
EXTENDS Integers, Sequences, FiniteSets, TLC

None == <<>>
Some(v) == <<v>>
IsNone(o) == Len(o) = 0
IsSome(o) == Len(o) = 1
Val(o) == o[1]

\* n/d rounded to the nearest integer, ties to even (d > 0)
RoundDiv(n, d) ==
    LET q == n \div d
        r == n % d
    IN  IF 2 * r < d THEN q
        ELSE IF 2 * r > d THEN q + 1
        ELSE IF q % 2 = 0 THEN q ELSE q + 1

RECURSIVE Gcd(_, _)
Gcd(a, b) == IF b = 0 THEN a ELSE Gcd(b, a % b)

Abs(x) == IF x < 0 THEN 0 - x ELSE x

\* the rational f times scale, rounded to the nearest integer; common
\* factors are cancelled first so that the products stay small
RoundScaled(f, scale) ==
    LET g == Gcd(Abs(f[1]), f[2])
        n == f[1] \div g
        d == f[2] \div g
        h == Gcd(scale, d)
    IN  RoundDiv(n * (scale \div h), d \div h)

\* round(n/d * 100, 2) for a fraction of 1, in hundredths of a percent
Round2Pct(f) == RoundScaled(f, 10000)

Min(a, b) == IF a < b THEN a ELSE b
Max(a, b) == IF a > b THEN a ELSE b

RECURSIVE SumSeq(_)
SumSeq(s) == IF Len(s) = 0 THEN 0 ELSE Head(s) + SumSeq(Tail(s))

(***************************************************************************)
(* CubingService                                                           *)
(***************************************************************************)
USER_HZ == 100

\* svalue(prev, curr, tvi) as the rational <<num, den>>, den > 0
svalue(prev, curr, tvi) ==
    IF tvi = 0 THEN <<0, 1>>
    ELSE IF tvi > 0 THEN <<(curr - prev) * 100, tvi>>
    ELSE <<(prev - curr) * 100, 0 - tvi>>

\* (total, busy) of a jiffies list [user, nice, system, idle, iowait, irq, softirq, steal]
GetAllBusyNoSteal(j) ==
    LET busy == j[1] + j[2] + j[3] + j[5] + j[6] + j[7]
    IN  [total |-> busy + j[4], busy |-> busy]

GetAllBusy(j) ==
    LET busy == j[1] + j[2] + j[3] + j[5] + j[6] + j[7] + j[8]
    IN  [total |-> busy + j[4], busy |-> busy]

\* the share of one component in the total delta, as a fraction of 1
\* (the code's percentage is this fraction * 100); index is 1-based here
CalculateComponent(prev, curr, i) ==
    LET p == GetAllBusy(prev)
        c == GetAllBusy(curr)
    IN  IF c.busy <= p.busy THEN <<0, 1>>
        ELSE IF c.total <= p.total THEN <<1, 1>>
        ELSE LET dt == c.total - p.total
                 dc == curr[i] - prev[i]
             IN  <<Min(dt, Max(0, dc)), dt>>

BusyShareTotalFirst(prev, curr) ==
    LET p == GetAllBusy(prev)
        c == GetAllBusy(curr)
    IN  IF c.total <= p.total THEN <<1, 1>>
        ELSE IF c.busy <= p.busy THEN <<0, 1>>
        ELSE LET dt == c.total - p.total
             IN  <<Min(dt, Max(0, c.busy - p.busy)), dt>>

\* busy share of cube_cpu (lines 140-151), as a fraction of 1
BusyShare(prev, curr) ==
    LET p == GetAllBusy(prev)
        c == GetAllBusy(curr)
    IN  IF c.busy <= p.busy THEN <<0, 1>>
        ELSE IF c.total <= p.total THEN <<1, 1>>
        ELSE LET dt == c.total - p.total
             IN  <<Min(dt, Max(0, c.busy - p.busy)), dt>>

\* cube_cpu(prev_jiffies, curr_jiffies); arguments and result are options
cube_cpu(prev, curr) ==
    IF IsNone(prev) \/ IsNone(curr) THEN None
    ELSE IF Len(Val(prev)) < 8 \/ Len(Val(curr)) < 8 THEN None
    ELSE LET pj == Val(prev)
             cj == Val(curr)
             user == CalculateComponent(pj, cj, 1)
             nice == CalculateComponent(pj, cj, 2)
             system == CalculateComponent(pj, cj, 3)
             iowait == CalculateComponent(pj, cj, 5)
             steal == CalculateComponent(pj, cj, 8)
             busy == BusyShare(pj, cj)
         IN  Some([cpu_user   |-> Round2Pct(<<user[1] + nice[1], user[2]>>),
                   cpu_system |-> Round2Pct(system),
                   cpu_iowait |-> Round2Pct(iowait),
                   cpu_steal  |-> Round2Pct(steal),
                   cpu_idle   |-> Round2Pct(<<busy[2] - busy[1], busy[2]>>)])

\* int(interval_seconds * USER_HZ), the interval given in milliseconds
Tvi(ms) == IF ms >= 0 THEN (ms * USER_HZ) \div 1000 ELSE -((-ms * USER_HZ) \div 1000)

\* interval_seconds <= 0 (lines 183, 255): the call returns None
NoIntervalCheck(ms) == FALSE
IntervalRejected(ms) == ms <= 0

\* the rollover clamp of cube_disk / cube_network (lines 218-226, 290-298)
NoClampRate(r) == r
ClampRate(r) == IF r[1] < 0 THEN <<0, 1>> ELSE r

\* cube_disk(prev_stats, curr_stats, interval_seconds)
\* iops in hundredths, mbps in ten-thousandths
cube_disk(prev, curr, ms) ==
    IF IsNone(prev) \/ IsNone(curr) THEN None
    ELSE IF IntervalRejected(ms) THEN None
    ELSE IF Tvi(ms) = 0 THEN None
    ELSE LET p == Val(prev)
             c == Val(curr)
             tvi == Tvi(ms)
             read_iops == ClampRate(svalue(p.read_ops, c.read_ops, tvi))
             write_iops == ClampRate(svalue(p.write_ops, c.write_ops, tvi))
             rb == svalue(p.read_bytes, c.read_bytes, tvi)
             wb == svalue(p.write_bytes, c.write_bytes, tvi)
             read_mbps == ClampRate(<<rb[1], rb[2] * 1024 * 1024>>)
             write_mbps == ClampRate(<<wb[1], wb[2] * 1024 * 1024>>)
         IN  Some([disk_read_iops  |-> RoundScaled(read_iops, 100),
                   disk_write_iops |-> RoundScaled(write_iops, 100),
                   disk_read_mbps  |-> RoundScaled(read_mbps, 10000),
                   disk_write_mbps |-> RoundScaled(write_mbps, 10000)])

\* cube_network(prev_stats, curr_stats, interval_seconds)
\* mbps (Mbit/s) in ten-thousandths, pps in hundredths
cube_network(prev, curr, ms) ==
    IF IsNone(prev) \/ IsNone(curr) THEN None
    ELSE IF IntervalRejected(ms) THEN None
    ELSE IF Tvi(ms) = 0 THEN None
    ELSE LET p == Val(prev)
             c == Val(curr)
             tvi == Tvi(ms)
             rxb == svalue(p.rx_bytes, c.rx_bytes, tvi)
             txb == svalue(p.tx_bytes, c.tx_bytes, tvi)
             rx_pps == ClampRate(svalue(p.rx_packets, c.rx_packets, tvi))
             tx_pps == ClampRate(svalue(p.tx_packets, c.tx_packets, tvi))
             rx_mbps == ClampRate(<<rxb[1] * 8, rxb[2] * 1000 * 1000>>)
             tx_mbps == ClampRate(<<txb[1] * 8, txb[2] * 1000 * 1000>>)
         IN  Some([net_rx_mbps |-> RoundScaled(rx_mbps, 10000),
                   net_tx_mbps |-> RoundScaled(tx_mbps, 10000),
                   net_rx_pps  |-> RoundScaled(rx_pps, 100),
                   net_tx_pps  |-> RoundScaled(tx_pps, 100)])

\* meminfo.get(key, 0) of a dict given as a function on some of the keys
GetOr0(d, key) == IF key \in DOMAIN d THEN d[key] ELSE 0

cube_memory_uncapped(meminfo) ==
    IF IsNone(meminfo) THEN None
    ELSE LET m == Val(meminfo)
             mem_total == GetOr0(m, "mem_total")
             sum == GetOr0(m, "mem_free") + GetOr0(m, "mem_buffers")
                    + GetOr0(m, "mem_cached") + GetOr0(m, "mem_slab")
         IN  IF mem_total <= 0 THEN None
             ELSE Some([mem_total     |-> mem_total,
                        mem_used      |-> mem_total - sum,
                        mem_available |-> GetOr0(m, "mem_available"),
                        mem_buffers   |-> GetOr0(m, "mem_buffers"),
                        mem_cached    |-> GetOr0(m, "mem_cached")])

\* cube_memory(meminfo); the values are integers in the caller's unit
cube_memory(meminfo) ==
    IF IsNone(meminfo) THEN None
    ELSE LET m == Val(meminfo)
             mem_total == GetOr0(m, "mem_total")
             sum == GetOr0(m, "mem_free") + GetOr0(m, "mem_buffers")
                    + GetOr0(m, "mem_cached") + GetOr0(m, "mem_slab")
             nousedmem == IF sum > mem_total THEN mem_total ELSE sum
         IN  IF mem_total <= 0 THEN None
             ELSE Some([mem_total     |-> mem_total,
                        mem_used      |-> mem_total - nousedmem,
                        mem_available |-> GetOr0(m, "mem_available"),
                        mem_buffers   |-> GetOr0(m, "mem_buffers"),
                        mem_cached    |-> GetOr0(m, "mem_cached")])

(***************************************************************************)
(* Snapshot parsers of TrickleView / MetricsUploadView                     *)
(*                                                                         *)
(* A /proc/stat text is a sequence of lines [name, nums]: name is the      *)
(* first whitespace-separated token ("cpu" for the aggregate line, which   *)
(* alone starts with 'cpu '), nums the tokens after it.  A /proc/meminfo   *)
(* text is a sequence of lines [key, val].  A /proc/diskstats text is a    *)
(* sequence of lines [dev, vals], vals the tokens after the device name.   *)
(* A /proc/net/dev text is a sequence of lines [header, iface, vals].      *)
(* The token NaN stands for any non-numeric token.  The empty text is <<>>.*)
(* A parser result is [raised, val]: raised when an exception escapes it.  *)
(***************************************************************************)
NaN == 0 - 1

Ok(v) == [raised |-> FALSE, val |-> v]
Raised == [raised |-> TRUE, val |-> None]

EmptyDict == [k \in {} |-> 0]
Update(a, b) == [k \in DOMAIN a \cup DOMAIN b |-> IF k \in DOMAIN b THEN b[k] ELSE a[k]]

\* line.startswith('cpu ') and len(line.split()) >= 8
IsCpuLine(l) == l.name = "cpu" /\ 1 + Len(l.nums) >= 8

\* some int(parts[i]), 1 <= i <= 8, raises ValueError
CpuLineRaises(l) == \E i \in 1..Min(8, Len(l.nums)) : l.nums[i] = NaN

\* [user, nice, system, idle, iowait, irq, softirq, steal] of an aggregate line
CpuLineJiffies(l) ==
    [i \in 1..8 |-> IF i <= Len(l.nums) THEN l.nums[i] ELSE 0]

\* the percentages _parse_proc_stat returns, from the cumulative counters
\* of the one line; hundredths of a percent
CpuFromCounters(j) ==
    LET total == j[1] + j[2] + j[3] + j[4] + j[5] + j[6] + j[7] + j[8]
    IN  [cpu_user   |-> RoundDiv(10000 * (j[1] + j[2]), total),
         cpu_system |-> RoundDiv(10000 * j[3], total),
         cpu_iowait |-> RoundDiv(10000 * j[5], total),
         cpu_idle   |-> RoundDiv(10000 * j[4], total),
         cpu_steal  |-> RoundDiv(10000 * j[8], total)]

RECURSIVE ParseProcStat(_)
ParseProcStat(m) ==
    IF Len(m) = 0 THEN Ok(None)
    ELSE LET l == Head(m)
         IN  IF IsCpuLine(l)
             THEN IF CpuLineRaises(l) THEN Raised
                  ELSE IF SumSeq(CpuLineJiffies(l)) > 0
                       THEN Ok(Some(CpuFromCounters(CpuLineJiffies(l))))
                       ELSE ParseProcStat(Tail(m))
             ELSE ParseProcStat(Tail(m))

\* values.get(key, 0) over the lines of a meminfo text; the last line of a
\* key wins, a line whose value is not an integer is passed over
RECURSIVE MemValue(_, _)
MemValue(m, key) ==
    IF Len(m) = 0 THEN 0
    ELSE LET l == m[Len(m)]
         IN  IF l.key = key /\ l.val # NaN THEN l.val
             ELSE MemValue(SubSeq(m, 1, Len(m) - 1), key)

\* MB in hundredths from kB: round(kb / 1024, 2)
KbToMb(kb) == RoundDiv(100 * kb, 1024)

ParseMeminfo(m) ==
    IF Len(m) = 0 THEN Ok(None)
    ELSE LET mem_total == MemValue(m, "MemTotal")
             mem_available == MemValue(m, "MemAvailable")
         IN  IF mem_total > 0
             THEN Ok(Some([mem_total     |-> KbToMb(mem_total),
                           mem_used      |-> KbToMb(mem_total - mem_available),
                           mem_available |-> KbToMb(mem_available),
                           mem_buffers   |-> KbToMb(MemValue(m, "Buffers")),
                           mem_cached    |-> KbToMb(MemValue(m, "Cached"))]))
             ELSE Ok(None)

\* the device names matching ^(sd[a-z]|nvme\d+n\d+|vd[a-z]|xvd[a-z])$
\* among the names the texts of this model use
WholeDiskNames == {"sda", "sdb", "nvme0n1", "vda", "xvda"}
SECTOR_SIZE == 512

\* a diskstats line counts when it has >= 10 fields, names a whole disk and
\* its four counters are integers
DiskLineCounts(l) ==
    /\ 3 + Len(l.vals) >= 10
    /\ l.dev \in WholeDiskNames
    /\ \A i \in {1, 3, 5, 7} : l.vals[i] # NaN

RECURSIVE DiskTotals(_)
DiskTotals(m) ==
    IF Len(m) = 0
    THEN [disk_read_bytes |-> 0, disk_write_bytes |-> 0,
          disk_read_ops |-> 0, disk_write_ops |-> 0]
    ELSE LET l == Head(m)
             r == DiskTotals(Tail(m))
         IN  IF DiskLineCounts(l)
             THEN [disk_read_bytes  |-> r.disk_read_bytes + l.vals[3] * SECTOR_SIZE,
                   disk_write_bytes |-> r.disk_write_bytes + l.vals[7] * SECTOR_SIZE,
                   disk_read_ops    |-> r.disk_read_ops + l.vals[1],
                   disk_write_ops   |-> r.disk_write_ops + l.vals[5]]
             ELSE r

ParseDiskstats(m) == IF Len(m) = 0 THEN Ok(None) ELSE Ok(Some(DiskTotals(m)))

\* a net/dev line counts when it is no header line, is not the loopback
\* and its four counters are integers
NetLineCounts(l) ==
    /\ ~l.header
    /\ l.iface # "lo"
    /\ Len(l.vals) >= 10
    /\ \A i \in {1, 2, 9, 10} : l.vals[i] # NaN

RECURSIVE NetTotals(_)
NetTotals(m) ==
    IF Len(m) = 0
    THEN [net_rx_bytes |-> 0, net_tx_bytes |-> 0,
          net_rx_packets |-> 0, net_tx_packets |-> 0]
    ELSE LET l == Head(m)
             r == NetTotals(Tail(m))
         IN  IF NetLineCounts(l)
             THEN [net_rx_bytes   |-> r.net_rx_bytes + l.vals[1],
                   net_tx_bytes   |-> r.net_tx_bytes + l.vals[9],
                   net_rx_packets |-> r.net_rx_packets + l.vals[2],
                   net_tx_packets |-> r.net_tx_packets + l.vals[10]]
             ELSE r

ParseNetdev(m) == IF Len(m) = 0 THEN Ok(None) ELSE Ok(Some(NetTotals(m)))


(***************************************************************************)
(* Bounds and inputs                                                       *)
(***************************************************************************)
NumCollectors == 1
NumWorkers == 2
MaxTime == 3
MaxSessions == 2
MaxRequests == 3
MaxSeqRequests == 2
MaxBatch == 2

Collectors == 1..NumCollectors
Workers == 1..NumWorkers

\* wire timestamps; 0 is the missing / falsy timestamp
WireTimestamps == 0..2

\* timeout_minutes values of the sweep request; the clock counts minutes
Timeouts == {0, 1}
FiveMinutes == 5

StatA == <<[name |-> "cpu", nums |-> <<10, 0, 5, 80, 5, 0, 0, 0, 0, 0>>],
           [name |-> "cpu0", nums |-> <<10, 0, 5, 80, 5, 0, 0, 0, 0, 0>>]>>
StatB == <<[name |-> "cpu", nums |-> <<18, 0, 7, 169, 5, 0, 1, 0, 0, 0>>]>>
MemA == <<[key |-> "MemTotal", val |-> 16384], [key |-> "MemFree", val |-> 4096],
          [key |-> "MemAvailable", val |-> 8192], [key |-> "Buffers", val |-> 512],
          [key |-> "Cached", val |-> 4096], [key |-> "Slab", val |-> 256]>>
DiskA == <<[dev |-> "sda", vals |-> <<100, 0, 2048, 0, 50, 0, 1024, 0, 0, 0, 0>>],
           [dev |-> "sda1", vals |-> <<1, 0, 8, 0, 1, 0, 8, 0, 0, 0, 0>>]>>
NetA == <<[header |-> TRUE, iface |-> "face", vals |-> <<>>],
          [header |-> FALSE, iface |-> "eth0",
           vals |-> <<1000, 10, 0, 0, 0, 0, 0, 0, 500, 5, 0, 0, 0, 0, 0, 0>>],
          [header |-> FALSE, iface |-> "lo",
           vals |-> <<1000, 100, 0, 0, 0, 0, 0, 0, 1000, 100, 0, 0, 0, 0, 0, 0>>]>>

\* a /proc/stat text whose aggregate line has a non-numeric counter, and the
\* text of a subsystem the views do not know
StatBad == <<[name |-> "cpu", nums |-> <<10, NaN, 5, 80, 5, 0, 0, 0, 0, 0>>]>>
LoadA == <<[key |-> "loadavg", val |-> 1]>>

\* the measurements a batch is made of: subsystem key and text
Payloads ==
    {[subsystem |-> "/proc/stat", measurement |-> StatA],
     [subsystem |-> "/proc/stat", measurement |-> StatB],
     [subsystem |-> "/proc/meminfo", measurement |-> MemA],
     [subsystem |-> "/proc/diskstats", measurement |-> DiskA],
     [subsystem |-> "/proc/net/dev", measurement |-> NetA]}

Measurements ==
    {[timestamp |-> t, subsystem |-> p.subsystem, measurement |-> p.measurement] :
        t \in WireTimestamps, p \in Payloads}

M(t, key, text) == [timestamp |-> t, subsystem |-> key, measurement |-> text]

\* request bodies of TrickleView.post for the sequential specification:
\* measurement lists of length <= MaxBatch over CPU and memory readings
SeqMeasurements ==
    {m \in Measurements : m.subsystem \in {"/proc/stat", "/proc/meminfo"}}
SeqBatches == UNION {[1..n -> SeqMeasurements] : n \in 0..MaxBatch}

\* request bodies for the specification of malformed and unknown fragments:
\* measurement lists of length <= MaxBatch over a good and a malformed CPU
\* reading, a memory reading and a reading of an unknown subsystem
FragMeasurements ==
    {M(t, p[1], p[2]) : t \in WireTimestamps,
        p \in {<<"/proc/stat", StatA>>, <<"/proc/stat", StatBad>>,
                <<"/proc/meminfo", MemA>>, <<"/proc/loadavg", LoadA>>}}
FragBatches == UNION {[1..n -> FragMeasurements] : n \in 0..MaxBatch}

\* an element of the measurement list that is no JSON object (a string, a
\* number): m.get raises AttributeError on it
NonDict == [nondict |-> TRUE]
HasNonDict(batch) == \E i \in DOMAIN batch : "nondict" \in DOMAIN batch[i]

\* request bodies for the specification with fairness: a well-formed batch
\* and a batch with an element that is no object
LiveBatches == {<<M(1, "/proc/stat", StatA)>>, <<NonDict>>}

\* request bodies for the concurrent specification: two batches of one key
\* with different readings, a batch of two groups, a batch without timestamp
RaceBatches ==
    {<<>>,
     <<M(1, "/proc/stat", StatA)>>,
     <<M(1, "/proc/stat", StatB), M(2, "/proc/meminfo", MemA)>>,
     <<M(0, "/proc/diskstats", DiskA), M(0, "/proc/net/dev", NetA)>>}

\* request bodies of the ping path for the concurrent specification
RacePings == {M(1, "/proc/meminfo", MemA), M(1, "/proc/stat", StatB)}

(***************************************************************************)
(* State                                                                   *)
(***************************************************************************)
VARIABLES
    now,        \* timezone.now(), in minutes
    sessions,   \* TrickleSession rows, in creation order; the id is the index
    metrics,    \* PerformanceMetric rows
    local,      \* per request in flight: its position and local variables
    requests,   \* number of requests started
    last,       \* history: per collector, the last upsert of a metric
    cin,        \* cubing functions on their own: the arguments
    cout        \* cubing functions on their own: the result

vars == <<now, sessions, metrics, local, requests, last, cin, cout>>
pipeVars == <<now, sessions, metrics, local, requests, last>>
cubeVars == <<cin, cout>>

ACTIVE == "active"
COMPLETED == "completed"
SAVED == "saved"

FieldNames ==
    {"cpu_user", "cpu_system", "cpu_iowait", "cpu_idle", "cpu_steal",
     "mem_total", "mem_used", "mem_available", "mem_buffers", "mem_cached",
     "disk_read_bytes", "disk_write_bytes", "disk_read_ops", "disk_write_ops",
     "net_rx_bytes", "net_tx_bytes", "net_rx_packets", "net_tx_packets"}

Idle == [pc |-> "idle"]

\* a request is handled in the first free slot: the slots are interchangeable
FreeSlot(w) ==
    /\ local[w].pc = "idle"
    /\ \A v \in Workers : v < w => local[v].pc # "idle"

\* TrickleSession(collector=c) as created by get_or_create: the field defaults
NewSession(c, t) ==
    [collector |-> c, status |-> ACTIVE, started_at |-> t, ended_at |-> None,
     last_data_at |-> None, sample_count |-> 0]

\* TrickleSession has no field holding a previous sample
previous_sample(s) == None

AnyStatusIds(ss, c) ==
    {i \in DOMAIN ss : ss[i].collector = c}

\* TrickleSession.objects.filter(collector=c, status=ACTIVE)
ActiveIds(ss, c) ==
    {i \in DOMAIN ss : ss[i].collector = c /\ ss[i].status = ACTIVE}

\* PerformanceMetric(collector, timestamp) with every field null
NewMetric(c, t) ==
    [collector |-> c, timestamp |-> t, f |-> [k \in FieldNames |-> None]]

\* setattr(obj, k, v) for every k, v of the dict d
SetFields(row, d) ==
    [row EXCEPT !.f = [k \in FieldNames |-> IF k \in DOMAIN d THEN Some(d[k]) ELSE @[k]]]

\* PerformanceMetric.objects.filter(collector=c, timestamp=t)
MatchingNone(ms, c, t) == {}

Matching(ms, c, t) ==
    {i \in DOMAIN ms : ms[i].collector = c /\ ms[i].timestamp = t}

\* unique_together = ['collector', 'timestamp']: an INSERT of the key fails
NoUniqueTogether(ms, c, t) == FALSE
UniqueTogether(ms, c, t) == Matching(ms, c, t) # {}

\* PerformanceMetric.objects.filter(collector=c, timestamp__gte=lo, timestamp__lte=hi).count()
CountMetrics(ms, c, lo, hi) ==
    Cardinality({i \in DOMAIN ms :
        ms[i].collector = c /\ ms[i].timestamp >= lo /\ ms[i].timestamp <= hi})

\* PerformanceMetric.objects.filter(collector=c, timestamp__gte=lo).count()
CountMetricsFrom(ms, c, lo) ==
    Cardinality({i \in DOMAIN ms : ms[i].collector = c /\ ms[i].timestamp >= lo})

\* grouped[ts][subsystem] = measurement, groups in first-seen order
RECURSIVE GroupByTimestamp(_, _)
GroupByTimestamp(batch, acc) ==
    IF Len(batch) = 0 THEN acc
    ELSE LET m == Head(batch)
             hit == {i \in DOMAIN acc : acc[i].ts = m.timestamp}
         IN  IF hit = {}
             THEN GroupByTimestamp(Tail(batch),
                      Append(acc, [ts |-> m.timestamp,
                                   subs |-> (m.subsystem :> m.measurement)]))
             ELSE LET i == CHOOSE i \in hit : TRUE
                  IN  GroupByTimestamp(Tail(batch),
                          [acc EXCEPT ![i].subs = (m.subsystem :> m.measurement) @@ @])

\* the body of the try block up to update_or_create: the defaults dict of
\* the group, or raised when a parser raises
MetricData(subs) ==
    LET cpu == IF "/proc/stat" \in DOMAIN subs
               THEN ParseProcStat(subs["/proc/stat"]) ELSE Ok(None)
        mem == IF "/proc/meminfo" \in DOMAIN subs
               THEN ParseMeminfo(subs["/proc/meminfo"]) ELSE Ok(None)
        disk == IF "/proc/diskstats" \in DOMAIN subs
                THEN ParseDiskstats(subs["/proc/diskstats"]) ELSE Ok(None)
        net == IF "/proc/net/dev" \in DOMAIN subs
               THEN ParseNetdev(subs["/proc/net/dev"]) ELSE Ok(None)
        D(r) == IF IsSome(r.val) THEN Val(r.val) ELSE EmptyDict
    IN  IF cpu.raised \/ mem.raised \/ disk.raised \/ net.raised THEN Raised
        ELSE Ok(Update(Update(Update(D(cpu), D(mem)), D(disk)), D(net)))

\* the groups with the result of the try body of each: the parsers read
\* nothing but the texts of the group, so the result is that of the loop
Parsed(groups) ==
    [i \in DOMAIN groups |->
        [ts |-> groups[i].ts, subs |-> groups[i].subs,
         md |-> MetricData(groups[i].subs)]]

\* datetime.fromtimestamp(ts) if ts else timezone.now()
MetricTimestamp(ts, clock) == IF ts # 0 THEN ts ELSE clock


\* the raw jiffies the CPU parser read from a /proc/stat text, if any
RECURSIVE RawJiffies(_)
RawJiffies(m) ==
    IF Len(m) = 0 THEN None
    ELSE IF IsCpuLine(Head(m)) /\ ~CpuLineRaises(Head(m))
         THEN Some(CpuLineJiffies(Head(m)))
         ELSE RawJiffies(Tail(m))

GroupJiffies(subs) ==
    IF "/proc/stat" \in DOMAIN subs THEN RawJiffies(subs["/proc/stat"]) ELSE None

\* history record of a write to the metric store: its key, its fields, the
\* raw jiffies it was parsed from, and whether the write before it had the
\* same key and the same fields
Written(before, t, d, raw) ==
    Some([ts |-> t, d |-> d, raw |-> raw,
          again |-> IsSome(before) /\ Val(before).ts = t /\ Val(before).d = d])

(***************************************************************************)
(* Initial state                                                           *)
(***************************************************************************)
PipeInit ==
    /\ now = 1
    /\ sessions = <<>>
    /\ metrics = <<>>
    /\ local = [w \in Workers |-> Idle]
    /\ requests = 0
    /\ last = [c \in Collectors |-> None]

CubeIdle ==
    /\ cin = [kind |-> "none"]
    /\ cout = None

Init == PipeInit /\ CubeIdle

(***************************************************************************)
(* TrickleView.post                                                        *)
(***************************************************************************)
\* lines 1793-1816: the request arrives; an empty measurement list returns
StartPost(w, pool, max) ==
    /\ FreeSlot(w)
    /\ requests < max
    /\ \E c \in Collectors, batch \in pool :
         local' = [local EXCEPT ![w] =
            IF Len(batch) = 0 THEN Idle
            ELSE [pc |-> "post_get", collector |-> c, batch |-> batch,
                  groups |-> IF HasNonDict(batch) THEN <<>>
                            ELSE Parsed(GroupByTimestamp(batch, <<>>)),
                  count |-> 0, sid |-> 0, base |-> 0, created |-> FALSE]]
    /\ requests' = requests + 1
    /\ UNCHANGED <<now, sessions, metrics, last, cubeVars>>

\* get_or_create, the get: one ACTIVE session is read, none leads to the
\* create, several raise MultipleObjectsReturned (the request fails)
PostGet(w) ==
    /\ local[w].pc = "post_get"
    /\ LET ids == ActiveIds(sessions, local[w].collector)
       IN  local' = [local EXCEPT ![w] =
             IF ids = {} THEN [@ EXCEPT !.pc = "post_create"]
             ELSE IF Cardinality(ids) = 1
                  THEN LET i == CHOOSE i \in ids : TRUE
                       IN  [@ EXCEPT !.pc = "post_group", !.sid = i,
                                     !.base = sessions[i].sample_count]
                  ELSE Idle]
    /\ UNCHANGED <<now, sessions, metrics, requests, last, cubeVars>>

\* get_or_create, the create: no constraint of TrickleSession can fail it
PostCreate(w) ==
    /\ local[w].pc = "post_create"
    /\ Len(sessions) < MaxSessions
    /\ sessions' = Append(sessions, NewSession(local[w].collector, now))
    /\ local' = [local EXCEPT ![w] =
          [@ EXCEPT !.pc = "post_group", !.sid = Len(sessions) + 1, !.base = 0,
                    !.created = TRUE]]
    /\ UNCHANGED <<now, metrics, requests, last, cubeVars>>

\* where the request goes after a group: the next group or the session save
AfterGroup(l) ==
    [pc |-> IF Len(l.groups) > 1 THEN "post_group" ELSE "post_save",
     collector |-> l.collector, batch |-> l.batch, groups |-> Tail(l.groups),
     count |-> l.count, sid |-> l.sid, base |-> l.base, created |-> l.created]

Uncounted(l) == l
Counted(l) == [l EXCEPT !.count = @ + 1]

\* lines 1855-1861 and one iteration of the loop over the groups, up to the
\* get of update_or_create: an element that is no object raises out of the
\* grouping and the request fails; a parser that raises or several rows of
\* the key skip the group, one row is updated under its lock, no row leads
\* to the insert
PostGroup(w) ==
    /\ local[w].pc = "post_group"
    /\ LET l == local[w]
           g == Head(l.groups)
           t == MetricTimestamp(g.ts, now)
           md == g.md
           hits == Matching(metrics, l.collector, t)
       IN  IF HasNonDict(l.batch)
           THEN /\ local' = [local EXCEPT ![w] = Idle]
                /\ UNCHANGED <<metrics, last>>
           ELSE IF md.raised \/ Cardinality(hits) > 1
           THEN /\ local' = [local EXCEPT ![w] = AfterGroup(l)]
                /\ UNCHANGED <<metrics, last>>
           ELSE IF Cardinality(hits) = 1
           THEN LET i == CHOOSE i \in hits : TRUE
                IN  /\ metrics' = [metrics EXCEPT ![i] = SetFields(@, md.val)]
                    /\ last' = [last EXCEPT ![l.collector] =
                                   Written(last[l.collector], t, md.val, GroupJiffies(g.subs))]
                    /\ local' = [local EXCEPT ![w] = AfterGroup(Counted(l))]
           ELSE /\ local' = [local EXCEPT ![w] =
                     [pc |-> "post_insert", collector |-> l.collector,
                      batch |-> l.batch, groups |-> l.groups, count |-> l.count,
                      sid |-> l.sid, base |-> l.base, created |-> l.created,
                      t |-> t, d |-> md.val]]
                /\ UNCHANGED <<metrics, last>>
    /\ UNCHANGED <<now, sessions, requests, cubeVars>>

\* the create of update_or_create: the INSERT, or on IntegrityError the
\* second get and the update
PostInsert(w) ==
    /\ local[w].pc = "post_insert"
    /\ LET l == local[w]
           g == Head(l.groups)
           hits == Matching(metrics, l.collector, l.t)
       IN  IF UniqueTogether(metrics, l.collector, l.t)
           THEN IF Cardinality(hits) = 1
                THEN LET i == CHOOSE i \in hits : TRUE
                     IN  /\ metrics' = [metrics EXCEPT ![i] = SetFields(@, l.d)]
                         /\ last' = [last EXCEPT ![l.collector] =
                                        Written(last[l.collector], l.t, l.d, GroupJiffies(g.subs))]
                         /\ local' = [local EXCEPT ![w] = AfterGroup(Counted(l))]
                ELSE /\ local' = [local EXCEPT ![w] = AfterGroup(l)]
                     /\ UNCHANGED <<metrics, last>>
           ELSE /\ metrics' = Append(metrics, SetFields(NewMetric(l.collector, l.t), l.d))
                /\ last' = [last EXCEPT ![l.collector] =
                               Written(last[l.collector], l.t, l.d, GroupJiffies(g.subs))]
                /\ local' = [local EXCEPT ![w] = AfterGroup(Counted(l))]
    /\ UNCHANGED <<now, sessions, requests, cubeVars>>

\* lines 1896-1906: update_or_create raises (the database refuses the
\* statement), the except clause logs it and the loop goes on
StoreFails(w) ==
    /\ local[w].pc = "post_group"
    /\ ~HasNonDict(local[w].batch)
    /\ ~Head(local[w].groups).md.raised
    /\ local' = [local EXCEPT ![w] = AfterGroup(local[w])]
    /\ UNCHANGED <<now, sessions, metrics, requests, last, cubeVars>>

\* lines 1830-1833: save(update_fields=['last_data_at', 'sample_count'])
PostSave(w) ==
    /\ local[w].pc = "post_save"
    /\ sessions' = [sessions EXCEPT
          ![local[w].sid].last_data_at = Some(now),
          ![local[w].sid].sample_count = local[w].base + local[w].count]
    /\ local' = [local EXCEPT ![w] = Idle]
    /\ UNCHANGED <<now, metrics, requests, last, cubeVars>>


(***************************************************************************)
(* CompleteSessionAPI.post                                                 *)
(***************************************************************************)
\* lines 862-872: the session is read and must be ACTIVE
StartClose(w) ==
    /\ FreeSlot(w)
    /\ requests < MaxRequests
    /\ requests' = requests + 1
    /\ \E sid \in DOMAIN sessions :
         /\ sessions[sid].status = ACTIVE
         /\ local' = [local EXCEPT ![w] =
               [pc |-> "close_save", sid |-> sid, copy |-> sessions[sid]]]
    /\ UNCHANGED <<now, sessions, metrics, last, cubeVars>>

CompletedEndless(copy, fallback, ms) ==
    [copy EXCEPT !.status = COMPLETED]

CompletedAsSaved(copy, fallback, ms) ==
    [copy EXCEPT !.status = SAVED, !.ended_at = Some(fallback)]

\* the completion both the close and the sweep write: status, ended_at and
\* the recount over [started_at, ended_at], on the copy read earlier
Completed(copy, fallback, ms) ==
    LET ended == IF IsSome(copy.last_data_at) THEN Val(copy.last_data_at) ELSE fallback
    IN  [copy EXCEPT !.status = COMPLETED,
                     !.ended_at = Some(ended),
                     !.sample_count = CountMetrics(ms, copy.collector,
                                                   copy.started_at, ended)]

\* lines 874-889: session.save() writes every field of the copy
CloseSave(w) ==
    /\ local[w].pc = "close_save"
    /\ sessions' = [sessions EXCEPT ![local[w].sid] =
                       Completed(local[w].copy, now, metrics)]
    /\ local' = [local EXCEPT ![w] = Idle]
    /\ UNCHANGED <<now, metrics, requests, last, cubeVars>>

(***************************************************************************)
(* CheckAndCompleteInactiveSessionsAPI.post                                *)
(***************************************************************************)
\* filter(status=ACTIVE, last_data_at__lt=threshold): a null last_data_at
\* never matches
Inactive(ss, threshold) ==
    {i \in DOMAIN ss :
        /\ ss[i].status = ACTIVE
        /\ IsSome(ss[i].last_data_at)
        /\ Val(ss[i].last_data_at) < threshold}

\* the rows of a set of ids as a list, newest first (ordering = -started_at)
RECURSIVE Fetch(_, _)
Fetch(ss, ids) ==
    IF ids = {} THEN <<>>
    ELSE LET i == CHOOSE i \in ids : \A j \in ids : j <= i
         IN  <<[sid |-> i, copy |-> ss[i]]>> \o Fetch(ss, ids \ {i})

\* lines 912-920: the queryset is evaluated when the loop starts
SweepBegin(w) ==
    /\ FreeSlot(w)
    /\ \E timeout \in Timeouts :
         LET threshold == now - timeout
             ids == Inactive(sessions, threshold)
         IN  /\ ids # {}
             /\ local' = [local EXCEPT ![w] =
                   [pc |-> "sweep_loop", todo |-> Fetch(sessions, ids),
                    threshold |-> threshold]]
    /\ UNCHANGED <<now, sessions, metrics, last, cubeVars>>

StartSweep(w) ==
    /\ requests < MaxRequests
    /\ requests' = requests + 1
    /\ SweepBegin(w)

\* the sweep run periodically, without end
PeriodicSweep(w) ==
    /\ SweepBegin(w)
    /\ UNCHANGED requests

\* lines 925-936: one iteration, session.save() writes every field
SweepStep(w) ==
    /\ local[w].pc = "sweep_loop"
    /\ LET l == local[w]
           h == Head(l.todo)
       IN  /\ sessions' = [sessions EXCEPT ![h.sid] =
                              Completed(h.copy, l.threshold, metrics)]
           /\ local' = [local EXCEPT ![w] =
                 IF Len(l.todo) > 1 THEN [l EXCEPT !.todo = Tail(@)] ELSE Idle]
    /\ UNCHANGED <<now, metrics, requests, last, cubeVars>>

(***************************************************************************)
(* ActiveTrickleSessionsAPI.get                                            *)
(***************************************************************************)
\* Collector.objects.filter(metrics__timestamp__gte=five_min_ago).distinct()
RecentCollectors(ms, since) ==
    {c \in Collectors : \E i \in DOMAIN ms : ms[i].collector = c /\ ms[i].timestamp >= since}

RECURSIVE SetToSeq(_)
SetToSeq(S) ==
    IF S = {} THEN <<>>
    ELSE LET x == CHOOSE x \in S : \A y \in S : x <= y
         IN  <<x>> \o SetToSeq(S \ {x})

\* the timestamp of PerformanceMetric...order_by('-timestamp').first()
LatestTimestamp(ms, c) ==
    LET ts == {ms[i].timestamp : i \in {j \in DOMAIN ms : ms[j].collector = c}}
    IN  IF ts = {} THEN None ELSE Some(CHOOSE t \in ts : \A u \in ts : u <= t)

\* lines 571-581
StartList(w) ==
    /\ FreeSlot(w)
    /\ requests < MaxRequests
    /\ requests' = requests + 1
    /\ LET cs == RecentCollectors(metrics, now - FiveMinutes)
       IN  /\ cs # {}
           /\ local' = [local EXCEPT ![w] =
                 [pc |-> "list_get", todo |-> SetToSeq(cs), sid |-> 0]]
    /\ UNCHANGED <<now, sessions, metrics, last, cubeVars>>

\* lines 586-592, the get of get_or_create
ListGet(w) ==
    /\ local[w].pc = "list_get"
    /\ LET ids == ActiveIds(sessions, Head(local[w].todo))
       IN  local' = [local EXCEPT ![w] =
             IF ids = {} THEN [@ EXCEPT !.pc = "list_create"]
             ELSE IF Cardinality(ids) = 1
                  THEN [@ EXCEPT !.pc = "list_save", !.sid = CHOOSE i \in ids : TRUE]
                  ELSE Idle]
    /\ UNCHANGED <<now, sessions, metrics, requests, last, cubeVars>>

\* lines 586-592, the create of get_or_create
ListCreate(w) ==
    /\ local[w].pc = "list_create"
    /\ Len(sessions) < MaxSessions
    /\ sessions' = Append(sessions, NewSession(Head(local[w].todo), now))
    /\ local' = [local EXCEPT ![w] =
          [@ EXCEPT !.pc = "list_save", !.sid = Len(sessions) + 1]]
    /\ UNCHANGED <<now, metrics, requests, last, cubeVars>>

\* lines 594-605: last_data_at and the recount from started_at are saved
ListSave(w) ==
    /\ local[w].pc = "list_save"
    /\ LET l == local[w]
           c == Head(l.todo)
           latest == LatestTimestamp(metrics, c)
       IN  /\ sessions' =
                 IF IsSome(latest)
                 THEN [sessions EXCEPT
                         ![l.sid].last_data_at = latest,
                         ![l.sid].sample_count =
                             CountMetricsFrom(metrics, c, sessions[l.sid].started_at)]
                 ELSE sessions
           /\ local' = [local EXCEPT ![w] =
                 IF Len(l.todo) > 1
                 THEN [pc |-> "list_get", todo |-> Tail(l.todo), sid |-> 0]
                 ELSE Idle]
    /\ UNCHANGED <<now, metrics, requests, last, cubeVars>>

(***************************************************************************)
(* MetricsUploadView._process_ping_data                                    *)
(***************************************************************************)
\* lines 291-299
StartPing(w, pool) ==
    /\ FreeSlot(w)
    /\ requests < MaxRequests
    /\ requests' = requests + 1
    /\ \E c \in Collectors, m \in pool :
         /\ Len(m.measurement) > 0
         /\ local' = [local EXCEPT ![w] =
               [pc |-> "ping_get", collector |-> c,
                t |-> MetricTimestamp(m.timestamp, now),
                subs |-> (m.subsystem :> m.measurement), row |-> 0]]
    /\ UNCHANGED <<now, sessions, metrics, last, cubeVars>>

\* lines 302-306, the get of get_or_create
PingGet(w) ==
    /\ local[w].pc = "ping_get"
    /\ LET hits == Matching(metrics, local[w].collector, local[w].t)
       IN  local' = [local EXCEPT ![w] =
             IF hits = {} THEN [@ EXCEPT !.pc = "ping_create"]
             ELSE IF Cardinality(hits) = 1
                  THEN LET i == CHOOSE i \in hits : TRUE
                       IN  [pc |-> "ping_save", collector |-> @.collector, t |-> @.t,
                            subs |-> @.subs, row |-> i, copy |-> metrics[i]]
                  ELSE Idle]
    /\ UNCHANGED <<now, sessions, metrics, requests, last, cubeVars>>

\* lines 302-306, the create of get_or_create with defaults={}
PingCreate(w) ==
    /\ local[w].pc = "ping_create"
    /\ LET l == local[w]
           hits == Matching(metrics, l.collector, l.t)
       IN  IF UniqueTogether(metrics, l.collector, l.t)
           THEN /\ local' = [local EXCEPT ![w] =
                     IF Cardinality(hits) = 1
                     THEN LET i == CHOOSE i \in hits : TRUE
                          IN  [pc |-> "ping_save", collector |-> l.collector, t |-> l.t,
                               subs |-> l.subs, row |-> i, copy |-> metrics[i]]
                     ELSE Idle]
                /\ UNCHANGED <<metrics, last>>
           ELSE /\ metrics' = Append(metrics, NewMetric(l.collector, l.t))
                /\ last' = [last EXCEPT ![l.collector] = Written(last[l.collector], l.t, EmptyDict, None)]
                /\ local' = [local EXCEPT ![w] =
                     [pc |-> "ping_save", collector |-> l.collector, t |-> l.t,
                      subs |-> l.subs, row |-> Len(metrics) + 1,
                      copy |-> NewMetric(l.collector, l.t)]]
    /\ UNCHANGED <<now, sessions, requests, cubeVars>>

\* lines 308-331: the fields of the one subsystem are set on the object
\* read earlier and metric.save() writes every field of it
PingSave(w) ==
    /\ local[w].pc = "ping_save"
    /\ LET l == local[w]
           md == MetricData(l.subs)
       IN  IF md.raised
           THEN UNCHANGED <<metrics, last>>
           ELSE /\ metrics' = [metrics EXCEPT ![l.row] = SetFields(l.copy, md.val)]
                /\ last' = [last EXCEPT ![l.collector] =
                               Written(last[l.collector], l.t, md.val, GroupJiffies(l.subs))]
    /\ local' = [local EXCEPT ![w] = Idle]
    /\ UNCHANGED <<now, sessions, requests, cubeVars>>

(***************************************************************************)
(* The clock                                                               *)
(***************************************************************************)
Tick ==
    /\ now < MaxTime
    /\ now' = now + 1
    /\ UNCHANGED <<sessions, metrics, local, requests, last, cubeVars>>

Next ==
    \/ Tick
    \/ \E w \in Workers :
         \/ StartPost(w, RaceBatches, MaxRequests) \/ PostGet(w) \/ PostCreate(w) \/ PostGroup(w)
         \/ PostInsert(w) \/ PostSave(w)
         \/ StartClose(w) \/ CloseSave(w)
         \/ StartSweep(w) \/ SweepStep(w)
         \/ StartList(w) \/ ListGet(w) \/ ListCreate(w) \/ ListSave(w)
         \/ StartPing(w, RacePings) \/ PingGet(w) \/ PingCreate(w) \/ PingSave(w)

Spec == Init /\ [][Next]_vars

\* batches handled concurrently, and nothing else
NextPosts ==
    \/ Tick
    \/ \E w \in Workers :
         \/ StartPost(w, RaceBatches, MaxRequests) \/ PostGet(w) \/ PostCreate(w)
         \/ PostGroup(w) \/ PostInsert(w) \/ PostSave(w)

SpecPosts == Init /\ [][NextPosts]_vars

\* batches of one source ingested one after another
NextSeq ==
    \/ Tick
    \/ StartPost(1, SeqBatches, MaxSeqRequests) \/ PostGet(1) \/ PostCreate(1) \/ PostGroup(1)
    \/ PostInsert(1) \/ PostSave(1)

SpecSeq == Init /\ [][NextSeq]_vars

\* batches with malformed and unknown fragments, one after another
NextFrag ==
    \/ Tick
    \/ StartPost(1, FragBatches, MaxSeqRequests) \/ PostGet(1) \/ PostCreate(1) \/ PostGroup(1)
    \/ PostInsert(1) \/ PostSave(1)

SpecFrag == Init /\ [][NextFrag]_vars

\* batches one after another over a store that may refuse a write
NextStore ==
    \/ Tick
    \/ StartPost(1, SeqBatches, MaxSeqRequests) \/ PostGet(1) \/ PostCreate(1)
    \/ PostGroup(1) \/ StoreFails(1) \/ PostInsert(1) \/ PostSave(1)

SpecStore == Init /\ [][NextStore]_vars

(***************************************************************************)
(* The export collaborator: SessionExportBlobView._run_export marks a      *)
(* COMPLETED session SAVED when the upload has succeeded; a failed upload  *)
(* leaves the session as it is                                             *)
(***************************************************************************)
MarkSaved(s) == [s EXCEPT !.status = SAVED]

Export ==
    \E sid \in DOMAIN sessions, uploaded \in BOOLEAN :
        /\ sessions[sid].status = COMPLETED
        /\ uploaded
        /\ sessions' = [sessions EXCEPT ![sid] = MarkSaved(@)]
        /\ UNCHANGED <<now, metrics, local, requests, last, cubeVars>>

\* the life of the sessions of a source: batches, closes, sweeps and exports
LifecycleBatches == {<<M(1, "/proc/stat", StatA)>>}

NextLifecycle ==
    \/ Tick
    \/ Export
    \/ \E w \in Workers :
         \/ StartPost(w, LifecycleBatches, MaxRequests) \/ PostGet(w) \/ PostCreate(w)
         \/ PostGroup(w) \/ PostInsert(w) \/ PostSave(w)
         \/ StartClose(w) \/ CloseSave(w)
         \/ StartSweep(w) \/ SweepStep(w)

SpecLifecycle == Init /\ [][NextLifecycle]_vars

\* the clock of the specification with fairness: it passes MaxTime when no
\* batch is in flight, and no batch begins after that
DataStopped == \A w \in Workers : local[w].pc \in {"idle", "sweep_loop"}

LivePost(w) ==
    /\ now <= MaxTime
    /\ StartPost(w, LiveBatches, MaxSeqRequests)

LiveTick ==
    /\ \/ now < MaxTime
       \/ now = MaxTime /\ DataStopped
    /\ now' = now + 1
    /\ UNCHANGED <<sessions, metrics, local, requests, last, cubeVars>>

PostStep(w) ==
    PostGet(w) \/ PostCreate(w) \/ PostGroup(w) \/ PostInsert(w) \/ PostSave(w)

\* batches and the periodic sweep; every request that has begun is carried
\* through, the clock advances, and the sweep keeps being run
NextLive ==
    \/ LiveTick
    \/ \E w \in Workers :
         \/ LivePost(w) \/ PostStep(w)
         \/ PeriodicSweep(w) \/ SweepStep(w)

SpecLive ==
    /\ Init /\ [][NextLive]_vars
    /\ WF_vars(LiveTick)
    /\ WF_vars(\E w \in Workers : PostStep(w))
    /\ WF_vars(\E w \in Workers : PeriodicSweep(w))
    /\ WF_vars(\E w \in Workers : SweepStep(w))


(***************************************************************************)
(* The cubing functions on their own: the arguments are drawn in the       *)
(* initial state, one action applies the function                          *)
(***************************************************************************)
\* jiffies: every counter of the previous list is BaseJiffy, every counter
\* of the current list differs from it by one of JiffyDeltas
BaseJiffy == 4
JiffyDeltas == {0 - 1, 0, 1, 3}
PrevJiffies == [i \in 1..8 |-> BaseJiffy]
CurrJiffies == [1..8 -> {BaseJiffy + d : d \in JiffyDeltas}]
ShortJiffies == <<100, 0, 50>>

CpuInputs ==
    {[kind |-> "cpu", prev |-> Some(PrevJiffies), curr |-> Some(c), ms |-> 0] :
        c \in CurrJiffies}
    \cup {[kind |-> "cpu", prev |-> None, curr |-> Some(PrevJiffies), ms |-> 0],
          [kind |-> "cpu", prev |-> Some(PrevJiffies), curr |-> None, ms |-> 0],
          [kind |-> "cpu", prev |-> Some(ShortJiffies), curr |-> Some(ShortJiffies), ms |-> 0]}

\* interval_seconds in milliseconds: negative, zero, below one tick of
\* USER_HZ, and whole and fractional seconds
IntervalsMs == {0 - 1000, 0, 5, 500, 1000, 3000}

OpsValues == {500, 1000, 1200}
BytesValues == {0, 1048576, 1572864}
PrevDisk == [read_ops |-> 1000, write_ops |-> 1000,
             read_bytes |-> 1048576, write_bytes |-> 1048576]
CurrDisks == [read_ops : OpsValues, write_ops : OpsValues,
              read_bytes : BytesValues, write_bytes : BytesValues]

DiskInputs ==
    {[kind |-> "disk", prev |-> Some(PrevDisk), curr |-> Some(c), ms |-> ms] :
        c \in CurrDisks, ms \in IntervalsMs}
    \cup {[kind |-> "disk", prev |-> None, curr |-> Some(PrevDisk), ms |-> 1000]}

NetBytesValues == {0, 125000, 187500}
PrevNet == [rx_bytes |-> 125000, tx_bytes |-> 125000,
            rx_packets |-> 1000, tx_packets |-> 1000]
CurrNets == [rx_bytes : NetBytesValues, tx_bytes : NetBytesValues,
             rx_packets : OpsValues, tx_packets : OpsValues]

NetInputs ==
    {[kind |-> "network", prev |-> Some(PrevNet), curr |-> Some(c), ms |-> ms] :
        c \in CurrNets, ms \in IntervalsMs}
    \cup {[kind |-> "network", prev |-> None, curr |-> Some(PrevNet), ms |-> 1000]}

MemKeys == {"mem_total", "mem_free", "mem_buffers", "mem_cached", "mem_slab",
            "mem_available"}
MemValues == {0, 300, 1000}
MemDicts == UNION {[K -> MemValues] : K \in SUBSET MemKeys}

MemInputs ==
    {[kind |-> "memory", prev |-> None, curr |-> Some(m), ms |-> 0] : m \in MemDicts}
    \cup {[kind |-> "memory", prev |-> None, curr |-> None, ms |-> 0]}

InitCube ==
    /\ PipeInit
    /\ \/ cin \in CpuInputs
       \/ cin \in DiskInputs
       \/ cin \in NetInputs
       \/ cin \in MemInputs
    /\ cout = None

CubeCpu ==
    /\ cin.kind = "cpu" /\ IsNone(cout)
    /\ cout' = Some(cube_cpu(cin.prev, cin.curr))
    /\ UNCHANGED <<cin, pipeVars>>

CubeDisk ==
    /\ cin.kind = "disk" /\ IsNone(cout)
    /\ cout' = Some(cube_disk(cin.prev, cin.curr, cin.ms))
    /\ UNCHANGED <<cin, pipeVars>>

CubeNetwork ==
    /\ cin.kind = "network" /\ IsNone(cout)
    /\ cout' = Some(cube_network(cin.prev, cin.curr, cin.ms))
    /\ UNCHANGED <<cin, pipeVars>>

CubeMemory ==
    /\ cin.kind = "memory" /\ IsNone(cout)
    /\ cout' = Some(cube_memory(cin.curr))
    /\ UNCHANGED <<cin, pipeVars>>

NextCube == CubeCpu \/ CubeDisk \/ CubeNetwork \/ CubeMemory

SpecCube == InitCube /\ [][NextCube]_vars

(***************************************************************************)
(* _parse_proc_stat on its own: /proc/stat texts of one aggregate or       *)
(* per-core line with 6 to MaxStatFields counters, alone or after a        *)
(* per-core line, and the empty text                                       *)
(***************************************************************************)
MaxStatFields == 10
StatNums == UNION {[1..n -> {0, 5}] : n \in 6..MaxStatFields}
StatTexts ==
    {<<[name |-> nm, nums |-> ns]>> : nm \in {"cpu", "cpu0"}, ns \in StatNums}
    \cup {<<[name |-> "cpu0", nums |-> ns], [name |-> "cpu", nums |-> ns]>> :
            ns \in StatNums}
    \cup {<<>>}

InitParse ==
    /\ PipeInit
    /\ cin \in {[kind |-> "stat", text |-> t] : t \in StatTexts}
    /\ cout = None

ParseStat ==
    /\ cin.kind = "stat" /\ IsNone(cout)
    /\ cout' = Some(ParseProcStat(cin.text))
    /\ UNCHANGED <<cin, pipeVars>>

SpecParse == InitParse /\ [][ParseStat]_vars

\* the result of the cubing function applied, when it is not None
CubeResult == Val(Val(cout))
CubeReturned(kind) == cin.kind = kind /\ IsSome(cout) /\ IsSome(Val(cout))


(***************************************************************************)
(* Properties                                                              *)
(***************************************************************************)
CpuFields == {"cpu_user", "cpu_system", "cpu_iowait", "cpu_idle", "cpu_steal"}
MemFields == {"mem_total", "mem_used", "mem_available", "mem_buffers", "mem_cached"}

\* the stored rows of a key, and the row when there is one
RowsOfKey(ms, c, t) ==
    {i \in DOMAIN ms : ms[i].collector = c /\ ms[i].timestamp = t}
Row(ms, c, t) == ms[CHOOSE i \in RowsOfKey(ms, c, t) : TRUE]

\* the step in which worker w saves the session statistics of its batch
PostSaveStep(w) == local[w].pc = "post_save" /\ local'[w].pc = "idle"

\* the step in which update_or_create of worker w returns: its key and fields
UpsertDone(w) ==
    /\ local[w].pc \in {"post_group", "post_insert"}
    /\ local'[w].count = local[w].count + 1
UpsertKey(w) ==
    IF local[w].pc = "post_insert" THEN local[w].t
    ELSE MetricTimestamp(Head(local[w].groups).ts, now)
UpsertFields(w) ==
    IF local[w].pc = "post_insert" THEN local[w].d
    ELSE MetricData(Head(local[w].groups).subs).val

\* the step in which the ping of worker w saves its row
PingSaved(w) ==
    /\ local[w].pc = "ping_save"
    /\ local'[w].pc = "idle"
    /\ ~MetricData(local[w].subs).raised

\* a write of a metric for collector c was recorded in this step
Wrote(c) == last'[c] # last[c]

\* C1: each source has at most one session whose status is ACTIVE, in every
\* reachable state of ingestions, closes, sweeps and listings
C1_AtMostOneActive ==
    \A c \in Collectors : Cardinality(ActiveIds(sessions, c)) <= 1

\* C2: for batches ingested one after another with increasing timestamps,
\* the CPU fields stored for a batch after the first are the normalizer
\* applied to the previous batch's raw jiffies and the current ones
C2_DeltaFromPrevious ==
    [][\A c \in Collectors :
         (/\ Wrote(c)
          /\ IsSome(last[c])
          /\ IsSome(Val(last[c]).raw)
          /\ IsSome(Val(last'[c]).raw)
          /\ Val(last[c]).ts < Val(last'[c]).ts)
         => LET cubed == cube_cpu(Val(last[c]).raw, Val(last'[c]).raw)
                row == Row(metrics', c, Val(last'[c]).ts)
            IN  /\ IsSome(cubed)
                /\ \A k \in CpuFields : row.f[k] = Some(Val(cubed)[k])]_vars

\* C3: the metric stored for the first batch of a source has null CPU
\* fields, and non-null memory fields when the batch has a memory reading
C3_FirstSampleNull ==
    [][\A c \in Collectors :
         (Wrote(c) /\ IsNone(last[c]))
         => LET row == Row(metrics', c, Val(last'[c]).ts)
            IN  /\ \A k \in CpuFields : IsNone(row.f[k])
                /\ ("mem_total" \in DOMAIN Val(last'[c]).d
                      => \A k \in MemFields : IsSome(row.f[k]))]_vars

\* C4: after a batch is ingested, its session holds the raw parsed counters
\* of that batch, with the batch's timestamp, as its previous sample
C4_PreviousSampleHeld ==
    [][\A w \in Workers :
         (PostSaveStep(w) /\ local[w].count > 0)
         => LET lw == Val(last[local[w].collector])
            IN  previous_sample(sessions'[local[w].sid]) =
                   Some([timestamp |-> lw.ts, cpu_jiffies |-> lw.raw])]_vars

\* C5: an upsert of the key and fields that the previous write of the
\* source already stored leaves the store as it is, with one row for the key
C5_UpsertIdempotent ==
    [][\A w \in Workers :
         (/\ UpsertDone(w)
          /\ IsSome(last[local[w].collector])
          /\ Val(last[local[w].collector]).ts = UpsertKey(w)
          /\ Val(last[local[w].collector]).d = UpsertFields(w))
         => /\ metrics' = metrics
            /\ Cardinality(RowsOfKey(metrics', local[w].collector, UpsertKey(w))) = 1]_vars

\* a key was upserted a second time with the same fields
C5_Witness ==
    \E c \in Collectors :
        /\ IsSome(last[c])
        /\ Val(last[c]).again
        /\ DOMAIN Val(last[c]).d # {}
        /\ Cardinality(RowsOfKey(metrics, c, Val(last[c]).ts)) = 1

\* C6: under any interleaving of upserts no key ever has two rows, and the
\* fields a writer supplies are the stored ones when its write returns
C6_OneRowLastWriteWins ==
    [][/\ \A i, j \in DOMAIN metrics' :
            (metrics'[i].collector = metrics'[j].collector
               /\ metrics'[i].timestamp = metrics'[j].timestamp) => i = j
       /\ \A w \in Workers :
            /\ UpsertDone(w) =>
                 LET row == Row(metrics', local[w].collector, UpsertKey(w))
                 IN  \A k \in DOMAIN UpsertFields(w) :
                        row.f[k] = Some(UpsertFields(w)[k])
            /\ PingSaved(w) =>
                 LET row == Row(metrics', local[w].collector, local[w].t)
                     d == MetricData(local[w].subs).val
                 IN  \A k \in DOMAIN d : row.f[k] = Some(d[k])]_vars

\* a writer whose lookup missed is about to insert a key another writer
\* has inserted meanwhile
C6_Witness ==
    \E w \in Workers :
        /\ local[w].pc \in {"post_insert", "ping_create"}
        /\ RowsOfKey(metrics, local[w].collector, local[w].t) # {}

\* C7: a batch's save raises the session's sample_count by the batch's
\* count, whatever other batch of the source is handled at the same time
C7_NoLostUpdate ==
    [][\A w \in Workers :
         PostSaveStep(w)
         => sessions'[local[w].sid].sample_count =
               sessions[local[w].sid].sample_count + local[w].count]_vars

\* C8: a batch never writes last_data_at or sample_count of a session that
\* has become COMPLETED since the batch began
C8_NoWriteAfterCompleted ==
    [][\A w \in Workers :
         PostSaveStep(w) => sessions[local[w].sid].status = ACTIVE]_vars

\* C9: every rate cube_disk and cube_network return for elapsed > 0 is >= 0
C9_RatesNonNegative ==
    /\ (CubeReturned("disk") /\ cin.ms > 0)
         => /\ CubeResult.disk_read_iops >= 0
            /\ CubeResult.disk_write_iops >= 0
            /\ CubeResult.disk_read_mbps >= 0
            /\ CubeResult.disk_write_mbps >= 0
    /\ (CubeReturned("network") /\ cin.ms > 0)
         => /\ CubeResult.net_rx_mbps >= 0
            /\ CubeResult.net_tx_mbps >= 0
            /\ CubeResult.net_rx_pps >= 0
            /\ CubeResult.net_tx_pps >= 0

\* a counter rolled over, another one advanced: rates 0 and positive
C9_Witness ==
    /\ CubeReturned("disk")
    /\ cin.ms > 0
    /\ Val(cin.curr).read_ops < Val(cin.prev).read_ops
    /\ Val(cin.curr).write_bytes > Val(cin.prev).write_bytes
    /\ CubeResult.disk_read_iops = 0
    /\ CubeResult.disk_write_mbps > 0

\* the sum of the five fields cube_cpu returns, in hundredths of a percent
CpuSum(r) == r.cpu_user + r.cpu_system + r.cpu_iowait + r.cpu_steal + r.cpu_idle

\* The tolerance of C10 is 3 hundredths of a percent: five fields, each
\* rounded to a hundredth, are off by at most 2.5 hundredths together.

\* C10 as stated: the five fields of every cube_cpu result sum to 100
C10_SumIs100 ==
    CubeReturned("cpu") => Abs(CpuSum(CubeResult) - 10000) <= 3

\* C10 amended: when no counter decreased, the five fields sum to 100 less
\* the share of irq and softirq in the total delta
C10_SumIs100LessIrq ==
    (CubeReturned("cpu") /\ \A i \in 1..8 : Val(cin.curr)[i] >= Val(cin.prev)[i])
    => LET p == Val(cin.prev)
           c == Val(cin.curr)
           T == SumSeq(c) - SumSeq(p)
           X == (c[6] - p[6]) + (c[7] - p[7])
       IN  IF T = 0 THEN CpuSum(CubeResult) = 10000
           ELSE Abs(CpuSum(CubeResult) * T - 10000 * (T - X)) <= 3 * T

\* counters advanced, irq among them, and the sum is below 100
C10_Witness ==
    /\ CubeReturned("cpu")
    /\ \A i \in 1..8 : Val(cin.curr)[i] >= Val(cin.prev)[i]
    /\ Val(cin.curr)[6] > Val(cin.prev)[6]
    /\ Val(cin.curr)[1] > Val(cin.prev)[1]
    /\ Val(cin.curr)[4] > Val(cin.prev)[4]
    /\ CpuSum(CubeResult) < 10000 - 3

\* C11: cube_disk and cube_network called with elapsed <= 0 return None for
\* the whole result, whatever the counters
C11_ZeroIntervalNone ==
    (cin.kind \in {"disk", "network"} /\ cin.ms <= 0 /\ IsSome(cout))
    => IsNone(Val(cout))

\* cube_network was called with elapsed 0 on counters that advanced
C11_Witness ==
    /\ cin.kind = "network"
    /\ cin.ms = 0
    /\ IsSome(cin.prev) /\ IsSome(cin.curr)
    /\ Val(cin.curr).rx_bytes > Val(cin.prev).rx_bytes
    /\ IsSome(cout)
    /\ IsNone(Val(cout))

\* the distinct timestamps of a request body, the readings of one of them
\* (the last reading of a subsystem stands), and the timestamps whose
\* readings parse without an exception
BatchTimestamps(batch) == {batch[i].timestamp : i \in DOMAIN batch}
SubsAt(batch, t) ==
    LET at == {i \in DOMAIN batch : batch[i].timestamp = t}
        lastOf(k) == CHOOSE i \in at :
                        /\ batch[i].subsystem = k
                        /\ \A j \in at : batch[j].subsystem = k => j <= i
    IN  [k \in {batch[i].subsystem : i \in at} |-> batch[lastOf(k)].measurement]
StoredTimestamps(batch) ==
    {t \in BatchTimestamps(batch) : ~MetricData(SubsAt(batch, t)).raised}

SweepSaved(w) == local[w].pc = "sweep_loop" /\ local'[w] # local[w]

\* C13: the sweep completes a session only if it is ACTIVE and its
\* last_data_at is older than the timeout, sets ended_at to the session's
\* last_data_at, and leaves every other session unchanged
C13_SweepOnlyInactive ==
    [][\A w \in Workers :
         SweepSaved(w)
         => LET sid == Head(local[w].todo).sid
            IN  /\ sessions[sid].status = ACTIVE
                /\ IsSome(sessions[sid].last_data_at)
                /\ Val(sessions[sid].last_data_at) < local[w].threshold
                /\ sessions'[sid].status = COMPLETED
                /\ sessions'[sid].ended_at = sessions[sid].last_data_at
                /\ \A i \in DOMAIN sessions : i # sid => sessions'[i] = sessions[i]]_vars

\* C14: every session that is ACTIVE is eventually no longer ACTIVE, when
\* data stops arriving, time passes and the sweep keeps being run
C14_EventuallyCompleted ==
    \A sid \in 1..MaxSessions :
        (sid \in DOMAIN sessions /\ sessions[sid].status = ACTIVE)
        ~> (sid \in DOMAIN sessions /\ sessions[sid].status # ACTIVE)

\* the step of a batch that settles the session it is handled under
Settles(w) ==
    /\ local[w].pc \in {"post_get", "post_create"}
    /\ local'[w].pc = "post_group"

Ended(s) == s.status \in {COMPLETED, SAVED}

\* C15: no step changes the status of a session from COMPLETED or SAVED to
\* ACTIVE; the session a batch is handled under is ACTIVE and was not an
\* ended one, it has a new id when the source had no ACTIVE session, and the
\* steps of a batch leave the status of every ended session as it is
C15_NeverResurrected ==
    [][/\ \A sid \in DOMAIN sessions :
             Ended(sessions[sid]) => sessions'[sid].status # ACTIVE
       /\ \A w \in Workers :
             Settles(w) =>
                LET sid == local'[w].sid
                    c == local[w].collector
                IN  /\ sessions'[sid].status = ACTIVE
                    /\ sid \in DOMAIN sessions => ~Ended(sessions[sid])
                    /\ (\A i \in DOMAIN sessions :
                           sessions[i].collector = c => Ended(sessions[i]))
                       => sid \notin DOMAIN sessions
       /\ \A w \in Workers :
             (local[w].pc \in {"post_get", "post_create", "post_group",
                               "post_insert", "post_save"}
              /\ local'[w] # local[w]) =>
                \A sid \in DOMAIN sessions :
                    Ended(sessions[sid]) =>
                        sessions'[sid].status = sessions[sid].status
      ]_vars

\* a batch is being handled under session 2, created for it, while session
\* 1 of the same source is SAVED
C15_Witness ==
    \E w \in Workers :
        /\ local[w].pc = "post_save"
        /\ local[w].created
        /\ local[w].sid = 2
        /\ sessions[1].status = SAVED
        /\ sessions[1].collector = local[w].collector
        /\ sessions[2].status = ACTIVE

\* C16: a session becomes SAVED only in a step of the export and only from
\* COMPLETED, no session is created SAVED, a step of a batch, a close or a
\* sweep makes no session SAVED, and the export of a COMPLETED session
\* leaves it SAVED
C16_SavedOnlyByExport ==
    [][/\ \A sid \in DOMAIN sessions' :
             (sessions'[sid].status = SAVED
              /\ (sid \in DOMAIN sessions => sessions[sid].status # SAVED))
             => /\ sid \in DOMAIN sessions
                /\ sessions[sid].status = COMPLETED
                /\ Export
                /\ local' = local
       /\ Export => \E sid \in DOMAIN sessions :
                        /\ sessions[sid].status = COMPLETED
                        /\ sessions'[sid].status = SAVED
      ]_vars

\* a session that was completed by a close or a sweep has been exported
C16_Witness ==
    \E sid \in DOMAIN sessions :
        /\ sessions[sid].status = SAVED
        /\ IsSome(sessions[sid].ended_at)

\* C17: the save that ends a batch of which the store refused a record
\* (fewer records counted than timestamps in the batch) leaves the session
\* as it was
C17_FailedStoreKeepsSession ==
    [][\A w \in Workers :
          (/\ local[w].pc = "post_save"
           /\ local'[w].pc = "idle"
           /\ local[w].count < Len(GroupByTimestamp(local[w].batch, <<>>)))
          => sessions'[local[w].sid] = sessions[local[w].sid]
      ]_vars

\* C18: when the save that ends a batch is reached, every well-formed
\* reading of the batch is in the stored row of its timestamp, also when a
\* malformed reading shares the timestamp (timestamps other than 0, whose
\* key does not depend on the clock)
C18_MalformedFragmentIsolated ==
    [][\A w \in Workers :
         PostSaveStep(w)
         => \A t \in BatchTimestamps(local[w].batch) \ {0} :
               LET subs == SubsAt(local[w].batch, t)
                   c == local[w].collector
               IN  /\ "/proc/meminfo" \in DOMAIN subs
                      => /\ RowsOfKey(metrics, c, t) # {}
                         /\ IsSome(Row(metrics, c, t).f.mem_total)
                   /\ ("/proc/stat" \in DOMAIN subs /\ subs["/proc/stat"] = StatA)
                      => /\ RowsOfKey(metrics, c, t) # {}
                         /\ IsSome(Row(metrics, c, t).f.cpu_user)
      ]_vars

\* C19: at the save that ends a batch the count (the metrics_count of the
\* response) is the number of distinct timestamps of the batch, each
\* timestamp other than 0 has exactly one stored row, and a row whose
\* timestamp had a CPU and a memory reading holds both
C19_CountIsTimestamps ==
    [][\A w \in Workers :
         PostSaveStep(w)
         => LET b == local[w].batch
                c == local[w].collector
            IN  /\ local[w].count = Cardinality(BatchTimestamps(b))
                /\ \A t \in BatchTimestamps(b) \ {0} :
                      /\ Cardinality(RowsOfKey(metrics, c, t)) = 1
                      /\ {"/proc/stat", "/proc/meminfo"} \subseteq DOMAIN SubsAt(b, t)
                         => /\ IsSome(Row(metrics, c, t).f.cpu_user)
                            /\ IsSome(Row(metrics, c, t).f.mem_total)
      ]_vars

\* the four subsystem keys the pipeline reads, and a request body without
\* the measurements of any other subsystem
KnownSubsystems ==
    {"/proc/stat", "/proc/meminfo", "/proc/diskstats", "/proc/net/dev"}
WithoutUnknown(batch) ==
    SelectSeq(batch, LAMBDA m : m.subsystem \in KnownSubsystems)

\* C20: a record is upserted only for a timestamp that has a reading of a
\* known subsystem, and the count at the save that ends a batch is the one
\* of the batch without its measurements of unknown subsystems
C20_UnknownSubsystemIgnored ==
    [][\A w \in Workers :
         /\ UpsertDone(w)
            => DOMAIN Head(local[w].groups).subs \cap KnownSubsystems # {}
         /\ PostSaveStep(w)
            => local[w].count =
                  Cardinality(StoredTimestamps(WithoutUnknown(local[w].batch)))
      ]_vars

\* C21: a step of the dashboard request that lists the active sessions
\* (ActiveTrickleSessionsAPI.get, a read) creates no session and leaves
\* every field of every session as it is
C21_ReadsLeaveSessions ==
    [][\A w \in Workers :
         (local[w].pc \in {"list_get", "list_create", "list_save"}
          /\ local'[w] # local[w])
         => sessions' = sessions
      ]_vars

\* the deltas of the total and of the busy jiffies (every counter but idle)
\* between the two lists given to cube_cpu
DeltaTotal == SumSeq(Val(cin.curr)) - SumSeq(Val(cin.prev))
DeltaBusy == DeltaTotal - (Val(cin.curr)[4] - Val(cin.prev)[4])

\* C22: cpu_idle of cube_cpu, in hundredths of a percent, is 100 when the
\* busy delta is <= 0 (whatever the total delta), else 0 when the total
\* delta is <= 0, else 100 less the busy share clamped to [0, 100], rounded
\* to a hundredth
C22_EdgeCaseOrder ==
    CubeReturned("cpu")
    => IF DeltaBusy <= 0 THEN CubeResult.cpu_idle = 10000
       ELSE IF DeltaTotal <= 0 THEN CubeResult.cpu_idle = 0
       ELSE 2 * Abs(CubeResult.cpu_idle * DeltaTotal
                    - 10000 * (DeltaTotal - Min(DeltaTotal, DeltaBusy)))
            <= DeltaTotal

\* the busy counters stood still or fell while the total fell as well
C22_Witness ==
    /\ CubeReturned("cpu")
    /\ DeltaBusy <= 0
    /\ DeltaTotal < 0
    /\ CubeResult.cpu_idle = 10000

\* C23: every field cube_cpu returns lies between 0 and 100 (hundredths of
\* a percent: between 0 and 10000)
C23_FieldsWithin100 ==
    CubeReturned("cpu")
    => \A f \in CpuFields : CubeResult[f] >= 0 /\ CubeResult[f] <= 10000

\* max(0, curr - prev) of one counter of the two readings given to
\* cube_disk or cube_network
Gain(key) == Max(0, Val(cin.curr)[key] - Val(cin.prev)[key])

\* C24: for an interval > 0 (in milliseconds) cube_disk and cube_network
\* return a result, and each rate is max(0, curr - prev) of its own counter
\* over the interval, rounded as the result is: operations and packets per
\* second in hundredths, MB/s (bytes / 1024^2) and Mbit/s (bytes * 8 / 10^6)
\* in ten-thousandths; 10^7 / 2^20 = 78125 / 8192
C24_RatesPerCounter ==
    (/\ cin.kind \in {"disk", "network"}
     /\ cin.ms > 0
     /\ IsSome(cin.prev) /\ IsSome(cin.curr)
     /\ IsSome(cout))
    => /\ IsSome(Val(cout))
       /\ cin.kind = "disk"
          => /\ CubeResult.disk_read_iops
                   = RoundScaled(<<Gain("read_ops") * 1000, cin.ms>>, 100)
             /\ CubeResult.disk_write_iops
                   = RoundScaled(<<Gain("write_ops") * 1000, cin.ms>>, 100)
             /\ CubeResult.disk_read_mbps
                   = RoundScaled(<<Gain("read_bytes"), cin.ms * 8192>>, 78125)
             /\ CubeResult.disk_write_mbps
                   = RoundScaled(<<Gain("write_bytes"), cin.ms * 8192>>, 78125)
       /\ cin.kind = "network"
          => /\ CubeResult.net_rx_pps
                   = RoundScaled(<<Gain("rx_packets") * 1000, cin.ms>>, 100)
             /\ CubeResult.net_tx_pps
                   = RoundScaled(<<Gain("tx_packets") * 1000, cin.ms>>, 100)
             /\ CubeResult.net_rx_mbps
                   = RoundScaled(<<Gain("rx_bytes") * 80, cin.ms>>, 1)
             /\ CubeResult.net_tx_mbps
                   = RoundScaled(<<Gain("tx_bytes") * 80, cin.ms>>, 1)

\* a field of the reading given to cube_memory, 0 when it is missing
MemIn(key) ==
    IF key \in DOMAIN Val(cin.curr) THEN Val(cin.curr)[key] ELSE 0

\* C25: cube_memory returns null exactly when no reading is given or the
\* total is <= 0; otherwise mem_used is the total less the smaller of the
\* total and free + buffers + cached + slab, and lies between 0 and
\* mem_total
C25_MemUsedCapped ==
    (cin.kind = "memory" /\ IsSome(cout))
    => IF IsNone(cin.curr) \/ MemIn("mem_total") <= 0
       THEN IsNone(Val(cout))
       ELSE /\ IsSome(Val(cout))
            /\ CubeResult.mem_total = MemIn("mem_total")
            /\ CubeResult.mem_used =
                  MemIn("mem_total")
                  - Min(MemIn("mem_total"),
                        MemIn("mem_free") + MemIn("mem_buffers")
                        + MemIn("mem_cached") + MemIn("mem_slab"))
            /\ CubeResult.mem_used >= 0
            /\ CubeResult.mem_used <= CubeResult.mem_total

\* free, buffers and cached together exceed the total, slab is missing
C25_Witness ==
    /\ CubeReturned("memory")
    /\ "mem_slab" \notin DOMAIN Val(cin.curr)
    /\ MemIn("mem_free") + MemIn("mem_buffers") + MemIn("mem_cached")
          > MemIn("mem_total")
    /\ CubeResult.mem_used = 0

\* C26: the row stored for a group with a /proc/meminfo reading whose
\* MemTotal is > 0 has mem_used = total less the smaller of the total and
\* free + buffers + cached + slab, and mem_available = MemAvailable, both
\* converted from kB to MB
C26_StoredMemUsed ==
    [][\A w \in Workers :
         (/\ UpsertDone(w)
          /\ "/proc/meminfo" \in DOMAIN Head(local[w].groups).subs
          /\ MemValue(Head(local[w].groups).subs["/proc/meminfo"], "MemTotal") > 0)
         => LET m == Head(local[w].groups).subs["/proc/meminfo"]
                total == MemValue(m, "MemTotal")
                unused == MemValue(m, "MemFree") + MemValue(m, "Buffers")
                          + MemValue(m, "Cached") + MemValue(m, "Slab")
                row == Row(metrics', local[w].collector, UpsertKey(w))
            IN  /\ row.f.mem_used = Some(KbToMb(total - Min(total, unused)))
                /\ row.f.mem_available = Some(KbToMb(MemValue(m, "MemAvailable")))
      ]_vars

\* the aggregate lines of the text given to _parse_proc_stat, and the text
\* with every line cut after its 8th counter
AggregateLines == {i \in DOMAIN cin.text : cin.text[i].name = "cpu"}
CutAt8 ==
    [i \in DOMAIN cin.text |->
        [name |-> cin.text[i].name,
         nums |-> SubSeq(cin.text[i].nums, 1, Min(8, Len(cin.text[i].nums)))]]

\* C27: _parse_proc_stat returns null unless the text has an aggregate line
\* ('cpu', not 'cpu0') with at least 8 numeric fields, and its result is
\* that of the text without the fields after the 8th
C27_AggregateLineOf8 ==
    (cin.kind = "stat" /\ IsSome(cout))
    => /\ ~Val(cout).raised
       /\ (\A i \in AggregateLines : Len(cin.text[i].nums) < 8)
          => IsNone(Val(cout).val)
       /\ Val(cout) = ParseProcStat(CutAt8)

\* C28: a record upserted by a batch lies at or after started_at of the
\* session the batch is handled under (and so inside the window recounted
\* at completion), and the step that completes a session does not lower
\* its sample_count
C28_CompletionKeepsCount ==
    [][/\ \A w \in Workers :
             UpsertDone(w)
             => sessions[local[w].sid].started_at <= UpsertKey(w)
       /\ \A sid \in DOMAIN sessions :
             (sessions[sid].status = ACTIVE /\ sessions'[sid].status = COMPLETED)
             => sessions'[sid].sample_count >= sessions[sid].sample_count
      ]_vars

\* C29: a write to the row of a key leaves every field the delivery has no
\* value for as it was stored before the write, in the upsert of a batch
\* and in the save of a ping
C29_OtherFieldsKept ==
    [][\A w \in Workers :
         /\ (UpsertDone(w)
             /\ RowsOfKey(metrics, local[w].collector, UpsertKey(w)) # {})
            => \A k \in FieldNames \ DOMAIN UpsertFields(w) :
                  Row(metrics', local[w].collector, UpsertKey(w)).f[k]
                     = Row(metrics, local[w].collector, UpsertKey(w)).f[k]
         /\ PingSaved(w)
            => \A k \in FieldNames \ DOMAIN MetricData(local[w].subs).val :
                  Row(metrics', local[w].collector, local[w].t).f[k]
                     = Row(metrics, local[w].collector, local[w].t).f[k]
      ]_vars

\* C30: after every step a session has no ended_at exactly when its status
\* is ACTIVE; the save that ends a batch leaves status and ended_at of every
\* session as they were, and a step that turns a session COMPLETED stores
\* an ended_at with it
C30_EndedIffNotActive ==
    [][/\ \A sid \in DOMAIN sessions' :
             IsNone(sessions'[sid].ended_at) <=> sessions'[sid].status = ACTIVE
       /\ \A w \in Workers :
             PostSaveStep(w)
             => \A sid \in DOMAIN sessions :
                   /\ sessions'[sid].status = sessions[sid].status
                   /\ sessions'[sid].ended_at = sessions[sid].ended_at
       /\ \A sid \in DOMAIN sessions :
             (sessions[sid].status # COMPLETED /\ sessions'[sid].status = COMPLETED)
             => IsSome(sessions'[sid].ended_at)
      ]_vars

\* a session completed after a batch was counted under it, next to the
\* ACTIVE session of a later batch
C30_Witness ==
    \E sid, tid \in DOMAIN sessions :
        /\ sessions[sid].status = COMPLETED
        /\ IsSome(sessions[sid].ended_at)
        /\ IsSome(sessions[sid].last_data_at)
        /\ sessions[tid].status = ACTIVE
        /\ IsNone(sessions[tid].ended_at)

=============================================================================
